---- MODULE Spec2Model ----
(***************************************************************************)
(* A model of the xbase daemon's per-project control loop:                 *)
(*   - the project registry (register / unregister, ref-counted clients),  *)
(*   - the broadcast channel (producers, writer task, editor-side relay),  *)
(*   - the watch service (notifier callback, bounded channel, dispatcher   *)
(*     loop, reactor set, debounce state).                                 *)
(* The three subsystems are checked under three specifications over one    *)
(* set of variables: SpecRegistry, SpecBroadcast and SpecWatch.            *)
(***************************************************************************)
EXTENDS Integers, Sequences, FiniteSets, TLC

(***************************************************************************)
(* Bounds of the model.                                                    *)
(***************************************************************************)
\* register calls accepted over a run of the registry
MaxRegisters ==
    3
\* messages handed to the broadcast channel over a run
MaxSends ==
    2
\* raw events the OS notifier delivers over a run
MaxEvents ==
    3
\* ticks of the clock over a run
MaxTime ==
    1
\* add() calls on the reactor set over a run
MaxAdds ==
    2

VARIABLES
    \* ---- registry (daemon state, behind the daemon lock)
    projects,       \* root -> project session, for the registered roots
    broadcasts,     \* root -> [address] of the session's broadcast channel
    watcher,        \* root -> [listeners] : state.watcher, the watch services
    lockHolder,     \* who holds DAEMON_STATE: "none" or "dispatcher"
    rpcResult,      \* what the last register/unregister call returned
    registers,      \* root -> number of register calls that returned Ok
    unregisters,    \* root -> number of unregister calls that returned Ok
    created,        \* root -> sessions (with channel and watch service) built
    aborts,         \* root -> abort() calls on the root's broadcast channels
    stops,          \* root -> watch services stopped
    firstAddress,   \* root -> address returned by the register that built
                    \*         the live session
    \* ---- broadcast channel of one project
    tx_queue,       \* messages sent on tx and not yet received by the writer
    rx_closed,      \* the writer's receiver is dropped
    writerPc,       \* "start", "select", "write", "done"
    writerMsg,      \* the message the writer holds while writing
    writerNotified, \* the writer's Notified future has been woken
    chanState,      \* "Idle", "Listening", "Connected", "Disconnected", "Aborted"
    socket,         \* bytes written to the peer and not yet read by it
    clientPc,       \* the relay thread: "idle", "reading", "done"
    pipe,           \* bytes the relay wrote to the editor's pipe
    observed,       \* lines the peer has read on the current connection
    expected,       \* lines the current connection owes the peer
    sends,          \* messages handed to tx so far
    producer,       \* "idle", "returned" or "panicked": the last producer call
    abortCalled,    \* abort() has been called on this channel
    backlog,        \* bytes the channel held for the peer when it connected
    sendErrs,       \* sends that returned Err to the producer
    \* ---- watch service of one project
    now,            \* the clock
    delivered,      \* raw events the notifier was called back with, in order
    received,       \* raw events the dispatcher took from the channel, in order
    chan,           \* the bounded channel notifier -> dispatcher
    blocked,        \* the event the notifier thread is blocked sending
    pc,             \* the dispatcher's position
    raw,            \* the raw event the dispatcher received last
    event,          \* the normalized event being dispatched
    order,          \* keys the for loop has still to visit
    visited,        \* keys the for loop has visited for this event
    discards,       \* keys queued for removal
    debounce,       \* InternalState.debounce
    last_path,      \* InternalState.last_path
    calls,          \* reactor operations invoked for the current event
    emitted,        \* messages echoed to the editor for the current event
    regenerated,    \* the regeneration hook ran for the current event
    existed,        \* event.path().exists() as try_to_recompile found it
    insertion,      \* keys of the reactor set, in insertion order
    retired,        \* keys removed by a discard and not added again
    adds,           \* add() calls so far
    lastProcessed,  \* path and time of the event dispatched last
    prevProcessed,  \* path and time of the event dispatched before that one
    prevLastPath,   \* last_path as the current event found it
    \* ---- conversions
    conv            \* the last conversion run: [op, arg, out]

registryVars ==
    <<projects, broadcasts, watcher, rpcResult, registers, unregisters,
      created, aborts, stops, firstAddress>>

broadcastVars ==
    <<tx_queue, rx_closed, writerPc, writerMsg, writerNotified, chanState,
      socket, clientPc, pipe, observed, expected, sends, producer,
      abortCalled, backlog, sendErrs>>

watchVars ==
    <<now, delivered, received, chan, blocked, pc, raw, event, order, visited,
      discards, debounce, last_path, calls, emitted, regenerated, existed,
      insertion, retired, adds, lastProcessed, prevProcessed, prevLastPath>>

vars ==
    <<registryVars, lockHolder, broadcastVars, watchVars, conv>>

(***************************************************************************)
(* Paths.  A path is a sequence of components, a component a sequence of   *)
(* characters.                                                             *)
(***************************************************************************)
Root1 ==
    << <<"u">>, <<"a">>, <<"p">> >>

Root2 ==
    << <<"u">>, <<"b">>, <<"q">>, <<"r">> >>

\* a root that ends in the same three components as Root1
Root3 ==
    << <<"v">>, <<"u">>, <<"a">>, <<"p">> >>

Roots ==
    {Root1, Root2, Root3}

\* Path::ancestors().nth(3): the path without its last three components
ancestors_nth3(p) ==
    IF Len(p) < 3 THEN <<>> ELSE SubSeq(p, 1, Len(p) - 3)

\* PathExt::unique_name: the last three components, '/' replaced by '_'
unique_name(p) ==
    IF Len(p) < 3
    THEN [some |-> FALSE, name |-> <<>>]
    ELSE [some |-> TRUE,
          name |-> p[Len(p) - 2] \o <<"_">> \o p[Len(p) - 1] \o <<"_">> \o p[Len(p)]]

NoAddress ==
    [dir |-> "none", name |-> <<>>]

\* Broadcast::address: the socket path chosen when the channel was created
Broadcast_address(root) ==
    [dir |-> "tmp", name |-> unique_name(root).name]

(***************************************************************************)
(* Swift package sessions.                                                 *)
(***************************************************************************)
WatchIgnore ==
    << <<"**", ".build", "**">> >>

\* what `swift package dump-package` can answer
DumpOutputs ==
    { [success |-> FALSE, parses |-> FALSE, hasName |-> FALSE, hasTargets |-> FALSE,
       targets |-> <<>>],
      [success |-> TRUE, parses |-> FALSE, hasName |-> FALSE, hasTargets |-> FALSE,
       targets |-> <<>>],
      [success |-> TRUE, parses |-> TRUE, hasName |-> FALSE, hasTargets |-> TRUE,
       targets |-> <<>>],
      [success |-> TRUE, parses |-> TRUE, hasName |-> TRUE, hasTargets |-> FALSE,
       targets |-> <<>>],
      [success |-> TRUE, parses |-> TRUE, hasName |-> TRUE, hasTargets |-> TRUE,
       targets |-> << [name |-> "App", type |-> "executable"],
                      [name |-> "AppTests", type |-> "test"],
                      [name |-> "Lib", type |-> "none"] >>] }

RECURSIVE NonTestTargets(_)
NonTestTargets(ts) ==
    IF ts = <<>> THEN {}
    ELSE (IF Head(ts).type = "test" THEN {} ELSE {Head(ts).name})
         \cup NonTestTargets(Tail(ts))

\* SwiftProject::update_project_info
update_project_info(project, dump) ==
    IF ~dump.success \/ ~dump.parses
    THEN [ok |-> FALSE, err |-> "DefinitionParsing", project |-> project,
          ran |-> <<"swift package dump-package">>]
    ELSE IF ~dump.hasName
    THEN [ok |-> FALSE, err |-> "Other", project |-> project,
          ran |-> <<"swift package dump-package">>]
    ELSE IF ~dump.hasTargets
    THEN [ok |-> FALSE, err |-> "Other",
          project |-> [project EXCEPT !.name = "Pkg"],
          ran |-> <<"swift package dump-package">>]
    ELSE [ok |-> TRUE, err |-> "none",
          project |-> [project EXCEPT !.name = "Pkg",
                                      !.targets = NonTestTargets(dump.targets)],
          ran |-> <<"swift package dump-package">>]

\* SwiftProject::generate
generate(project, buildOk, dump) ==
    IF ~buildOk
    THEN [ok |-> FALSE, err |-> "Generate", project |-> project,
          ran |-> <<"swift build">>]
    ELSE [update_project_info(project, dump) EXCEPT !.ran = <<"swift build">> \o @]

\* a fresh session that counts no client
InitialClientsNone ==
    1 - 1

\* a fresh session that counts its first client twice
InitialClientsTwice ==
    1 + 1

\* the num_clients a fresh session starts with
InitialClients ==
    1

\* a constructor that never builds
SwiftProject_new_no_generate(root, buildExists, buildOk, dump) ==
    update_project_info([root |-> root, name |-> "", targets |-> {},
                         num_clients |-> 1, watchignore |-> WatchIgnore], dump)

\* SwiftProject::new
SwiftProject_new(root, buildExists, buildOk, dump) ==
    LET project == [root |-> root, name |-> "", targets |-> {},
                    num_clients |-> InitialClients, watchignore |-> WatchIgnore]
    IN  IF ~buildExists
        THEN generate(project, buildOk, dump)
        ELSE update_project_info(project, dump)

\* the call built no session
NoBuilt ==
    [buildExists |-> FALSE, buildOk |-> FALSE,
     dump |-> [success |-> FALSE, parses |-> FALSE, hasName |-> FALSE,
               hasTargets |-> FALSE, targets |-> <<>>],
     ran |-> <<>>, err |-> "none"]

EmptyMap ==
    [x \in {} |-> 0]

\* f with key k removed
Without(f, k) ==
    [x \in DOMAIN f \ {k} |-> f[x]]

\* f with key k mapped to v
With(f, k, v) ==
    [x \in DOMAIN f \cup {k} |-> IF x = k THEN v ELSE f[x]]

(***************************************************************************)
(* Registry: register and unregister, each run under the daemon lock.      *)
(***************************************************************************)
\* a handler that works on the registry without taking the lock
lock_ignored(holder) ==
    TRUE

\* a request handler takes the daemon lock before it touches the registry:
\* it waits while the dispatcher holds it
lock_free(holder) ==
    holder = "none"

\* register(root) of a root that has a session: one more client
register_existing(root) ==
    /\ root \in DOMAIN projects
    /\ projects' = [projects EXCEPT ![root].num_clients = @ + 1]
    /\ rpcResult' = [op |-> "register", root |-> root, ok |-> TRUE,
                     address |-> broadcasts[root].address,
                     built |-> NoBuilt]
    /\ registers' = [registers EXCEPT ![root] = @ + 1]
    /\ UNCHANGED <<broadcasts, watcher, unregisters, created, aborts, stops,
                   firstAddress>>

\* register(root) of a root that has none: build the session, its channel
\* and its watch service
register_new(root, buildExists, buildOk, dump) ==
    LET built == SwiftProject_new(root, buildExists, buildOk, dump)
        address == Broadcast_address(root)
        record == [buildExists |-> buildExists, buildOk |-> buildOk, dump |-> dump,
                   ran |-> built.ran, err |-> built.err]
    IN  /\ root \notin DOMAIN projects
        /\ IF built.ok
           THEN /\ projects' = With(projects, root, built.project)
                /\ broadcasts' = With(broadcasts, root, [address |-> address])
                /\ watcher' = With(watcher, root, [listeners |-> EmptyMap])
                /\ rpcResult' = [op |-> "register", root |-> root, ok |-> TRUE,
                                 address |-> address,
                                 built |-> record]
                /\ registers' = [registers EXCEPT ![root] = @ + 1]
                /\ created' = [created EXCEPT ![root] = @ + 1]
                /\ firstAddress' = [firstAddress EXCEPT ![root] = address]
           ELSE /\ rpcResult' = [op |-> "register", root |-> root, ok |-> FALSE,
                                 address |-> NoAddress,
                                 built |-> record]
                /\ UNCHANGED <<projects, broadcasts, watcher, registers, created,
                               firstAddress>>
        /\ UNCHANGED <<unregisters, aborts, stops>>

TotalRegisters ==
    registers[Root1] + registers[Root2] + registers[Root3]

register(root) ==
    /\ lock_free(lockHolder)
    /\ TotalRegisters < MaxRegisters
    /\ \/ register_existing(root)
       \/ \E buildExists \in BOOLEAN, buildOk \in BOOLEAN, dump \in DumpOutputs :
              register_new(root, buildExists, buildOk, dump)
    /\ UNCHANGED <<lockHolder, broadcastVars, watchVars, conv>>

\* unregister(root): one client fewer; the last one takes the session down
unregister_effect(root) ==
    IF root \notin DOMAIN projects
    THEN /\ rpcResult' = [op |-> "unregister", root |-> root, ok |-> FALSE,
                          address |-> NoAddress,
                          built |-> NoBuilt]
         /\ UNCHANGED <<projects, broadcasts, watcher, unregisters, aborts, stops>>
    ELSE /\ rpcResult' = [op |-> "unregister", root |-> root, ok |-> TRUE,
                          address |-> NoAddress,
                          built |-> NoBuilt]
         /\ unregisters' = [unregisters EXCEPT ![root] = @ + 1]
         /\ IF projects[root].num_clients - 1 = 0
            THEN /\ aborts' = [aborts EXCEPT ![root] = @ + 1]
                 /\ stops' = [stops EXCEPT ![root] = @ + 1]
                 /\ projects' = Without(projects, root)
                 /\ broadcasts' = Without(broadcasts, root)
                 /\ watcher' = Without(watcher, root)
            ELSE /\ projects' = [projects EXCEPT ![root].num_clients = @ - 1]
                 /\ UNCHANGED <<broadcasts, watcher, aborts, stops>>

unregister(root) ==
    /\ lock_free(lockHolder)
    /\ unregister_effect(root)
    /\ UNCHANGED <<registers, created, firstAddress, lockHolder, broadcastVars,
                   watchVars, conv>>

(***************************************************************************)
(* Broadcast messages.                                                     *)
(***************************************************************************)
StatuslineStates ==
    {"Success", "Failure", "Processing", "Watching", "Running"}

MessageLevels ==
    {"Trace", "Debug", "Info", "Warn", "Error", "Success"}

\* the rule log_step and log_separator emit: ".".repeat(73)
DotRule ==
    [i \in 1..73 |-> "."]

Notify(msg, level) ==
    [kind |-> "Notify", msg |-> msg, level |-> level]

Log(msg, level) ==
    [kind |-> "Log", msg |-> msg, level |-> level]

Execute(task, state) ==
    [kind |-> "Execute", task |-> task, state |-> state]

notify_error(value) ==
    Notify(value, "Error")

notify_warn(value) ==
    Notify(value, "Warn")

notify_trace(value) ==
    Notify(value, "Trace")

notify_debug(value) ==
    Notify(value, "Debug")

log_error(value) ==
    Log(value, "Error")

log_info(value) ==
    Log(value, "Error")

log_warn(value) ==
    Log(value, "Warn")

log_trace(value) ==
    Log(value, "Trace")

log_debug(value) ==
    Log(value, "Debug")

\* impl From<&str> for Message
Message_from_str(value) ==
    Notify(value, "Info")

\* one JSON object: the externally tagged form of the enum
Serialize(m) ==
    IF m.kind = "Execute"
    THEN IF m.task = "UpdateStatusline"
         THEN [tag |-> "Execute", body |-> <<"UpdateStatusline", m.state>>]
         ELSE [tag |-> "Execute", body |-> <<m.task>>]
    ELSE [tag |-> m.kind, body |-> <<"msg", m.msg, "level", m.level>>]

Deserialize(j) ==
    IF j.tag = "Execute"
    THEN IF Len(j.body) = 2
         THEN Execute(j.body[1], j.body[2])
         ELSE Execute(j.body[1], "none")
    ELSE [kind |-> j.tag, msg |-> j.body[2], level |-> j.body[4]]

Newline ==
    [t |-> "nl", v |-> [tag |-> "none", body |-> <<>>]]

\* the bytes of one message on the wire: the JSON text, then '\n'
Line(m) ==
    << [t |-> "json", v |-> Serialize(m)], Newline >>

RECURSIVE Lines(_)
Lines(ms) ==
    IF ms = <<>> THEN <<>> ELSE Line(Head(ms)) \o Lines(Tail(ms))

RECURSIVE Concat(_)
Concat(ls) ==
    IF ls = <<>> THEN <<>> ELSE Head(ls) \o Concat(Tail(ls))

(***************************************************************************)
(* Producer helpers of the broadcast channel.                              *)
(***************************************************************************)
Helpers ==
    {"log_step", "log_separator", "success", "info", "error", "warn", "trace",
     "debug", "log_info", "log_error", "log_warn", "log_trace", "log_debug",
     "update_statusline", "open_logger", "reload_lsp_server"}

Text ==
    <<"m">>

\* the messages a helper hands to tx, in order
helper_messages(h, msg, state) ==
    CASE h = "log_step" -> <<log_info(msg), log_info(DotRule)>>
      [] h = "log_separator" -> <<log_info(DotRule)>>
      [] h = "success" -> <<Notify(msg, "Success")>>
      [] h = "info" -> <<Message_from_str(msg)>>
      [] h = "error" -> <<notify_error(msg)>>
      [] h = "warn" -> <<notify_warn(msg)>>
      [] h = "trace" -> <<notify_trace(msg)>>
      [] h = "debug" -> <<notify_debug(msg)>>
      [] h = "log_info" -> <<log_info(msg)>>
      [] h = "log_error" -> <<log_error(msg)>>
      [] h = "log_warn" -> <<log_warn(msg)>>
      [] h = "log_trace" -> <<log_trace(msg)>>
      [] h = "log_debug" -> <<log_debug(msg)>>
      [] h = "update_statusline" -> <<Execute("UpdateStatusline", state)>>
      [] h = "open_logger" -> <<Execute("OpenLogger", "none")>>
      [] h = "reload_lsp_server" -> <<Execute("ReloadLspServer", "none")>>

\* tx.send(m) on the unbounded channel: never waits; Err once the receiver
\* is gone
tx_send(queue, closed, m) ==
    IF closed
    THEN [queue |-> queue, res |-> "Err"]
    ELSE [queue |-> Append(queue, m), res |-> "Ok"]

\* `.unwrap()` in place of `.ok()`
result_unwrap(res, before) ==
    IF res = "Err" THEN "panicked" ELSE before

\* `.ok()` on the result of send: the result is dropped
result_ok(res, before) ==
    before

RECURSIVE send_all(_, _, _, _)
send_all(queue, closed, ms, status) ==
    IF ms = <<>> \/ status = "panicked"
    THEN [queue |-> queue, status |-> status]
    ELSE LET r == tx_send(queue, closed, Head(ms))
         IN  send_all(r.queue, closed, Tail(ms), result_ok(r.res, status))

\* a producer calls one helper
Produce(h, state) ==
    LET ms == helper_messages(h, Text, state)
        r == send_all(tx_queue, rx_closed, ms, "returned")
    IN  /\ sends + Len(ms) <= MaxSends
        /\ sends' = sends + Len(ms)
        /\ tx_queue' = r.queue
        /\ producer' = r.status
        /\ expected' = IF chanState = "Connected" /\ ~rx_closed
                       THEN expected \o Lines(ms)
                       ELSE expected
        /\ sendErrs' = sendErrs + (IF rx_closed THEN Len(ms) ELSE 0)
        /\ UNCHANGED <<rx_closed, writerPc, writerMsg, writerNotified, chanState,
                       socket, clientPc, pipe, observed, abortCalled, backlog>>
        /\ UNCHANGED <<registryVars, lockHolder, watchVars, conv>>

\* Broadcast::abort: notify_waiters wakes the tasks that are waiting now and
\* stores no permit
notify_waiters(waiting, notified) ==
    IF waiting THEN TRUE ELSE notified

abort ==
    /\ ~abortCalled
    /\ abortCalled' = TRUE
    /\ writerNotified' = notify_waiters(writerPc = "select", writerNotified)
    /\ UNCHANGED <<tx_queue, rx_closed, writerPc, writerMsg, chanState, socket,
                   clientPc, pipe, observed, expected, sends, producer, backlog,
                   sendErrs>>
    /\ UNCHANGED <<registryVars, lockHolder, watchVars, conv>>

(***************************************************************************)
(* The writer task of the channel and the socket peer.                     *)
(***************************************************************************)
NoMessage ==
    Execute("none", "none")

\* the task starts: the socket is bound and the writer waits in its select
WriterStart ==
    /\ writerPc = "start"
    /\ writerPc' = "select"
    /\ chanState' = "Listening"
    /\ UNCHANGED <<tx_queue, rx_closed, writerMsg, writerNotified, socket,
                   clientPc, pipe, observed, expected, sends, producer,
                   abortCalled, backlog, sendErrs>>
    /\ UNCHANGED <<registryVars, lockHolder, watchVars, conv>>

\* select: the abort branch
WriterAborted ==
    /\ writerPc = "select"
    /\ writerNotified
    /\ writerPc' = "done"
    /\ chanState' = "Aborted"
    /\ rx_closed' = TRUE
    /\ tx_queue' = <<>>
    /\ writerNotified' = FALSE
    /\ UNCHANGED <<writerMsg, socket, clientPc, pipe, observed, expected, sends,
                   producer, abortCalled, backlog, sendErrs>>
    /\ UNCHANGED <<registryVars, lockHolder, watchVars, conv>>

\* select: the recv branch; the Notified future of this round is dropped
WriterRecv ==
    /\ writerPc = "select"
    /\ tx_queue # <<>>
    /\ writerMsg' = Head(tx_queue)
    /\ tx_queue' = Tail(tx_queue)
    /\ writerPc' = "write"
    /\ writerNotified' = FALSE
    /\ UNCHANGED <<rx_closed, chanState, socket, clientPc, pipe, observed,
                   expected, sends, producer, abortCalled, backlog, sendErrs>>
    /\ UNCHANGED <<registryVars, lockHolder, watchVars, conv>>

\* write the line and flush when a peer is connected, drop it otherwise
WriterWrite ==
    /\ writerPc = "write"
    /\ socket' = IF chanState = "Connected" THEN socket \o Line(writerMsg) ELSE socket
    /\ writerMsg' = NoMessage
    /\ writerPc' = "select"
    /\ UNCHANGED <<tx_queue, rx_closed, writerNotified, chanState, clientPc, pipe,
                   observed, expected, sends, producer, abortCalled, backlog,
                   sendErrs>>
    /\ UNCHANGED <<registryVars, lockHolder, watchVars, conv>>

InHand ==
    IF writerPc = "write" THEN <<writerMsg>> ELSE <<>>

\* the relay thread's UnixStream::connect(address) is accepted
PeerConnect ==
    /\ chanState \in {"Listening", "Disconnected"}
    /\ clientPc = "idle"
    /\ chanState' = "Connected"
    /\ clientPc' = "reading"
    /\ socket' = <<>>
    /\ pipe' = <<>>
    /\ observed' = <<>>
    /\ expected' = Lines(InHand \o tx_queue)
    /\ backlog' = Len(Lines(InHand \o tx_queue))
    /\ UNCHANGED <<tx_queue, rx_closed, writerPc, writerMsg, writerNotified, sends,
                   producer, abortCalled, sendErrs>>
    /\ UNCHANGED <<registryVars, lockHolder, watchVars, conv>>

\* the peer goes away: what it has not read is lost
PeerDrop ==
    /\ chanState = "Connected"
    /\ chanState' = "Disconnected"
    /\ clientPc' = "idle"
    /\ socket' = <<>>
    /\ expected' = <<>>
    /\ pipe' = <<>>
    /\ observed' = <<>>
    /\ backlog' = 0
    /\ UNCHANGED <<tx_queue, rx_closed, writerPc, writerMsg, writerNotified, sends,
                   producer, abortCalled, sendErrs>>
    /\ UNCHANGED <<registryVars, lockHolder, watchVars, conv>>

(***************************************************************************)
(* The editor-side relay: read a line from the socket, write it to the     *)
(* editor's pipe.                                                          *)
(***************************************************************************)
RECURSIVE NewlineAt(_, _)
NewlineAt(bytes, i) ==
    IF i > Len(bytes) THEN 0
    ELSE IF bytes[i].t = "nl" THEN i
    ELSE NewlineAt(bytes, i + 1)

\* read_until(b'\n'): the bytes up to and including the first '\n'; at the
\* end of the stream whatever is left
read_until(bytes, eof) ==
    LET i == NewlineAt(bytes, 1)
    IN  IF i > 0
        THEN [ready |-> TRUE, line |-> SubSeq(bytes, 1, i),
              rest |-> SubSeq(bytes, i + 1, Len(bytes))]
        ELSE IF eof
        THEN [ready |-> TRUE, line |-> bytes, rest |-> <<>>]
        ELSE [ready |-> FALSE, line |-> <<>>, rest |-> bytes]

\* write_all called twice for a line
write_all_twice(p, line) ==
    p \o line \o line

\* writer.write_all(line): the line goes to the pipe once
write_all(p, line) ==
    p \o line

ClientRead ==
    LET r == read_until(socket, chanState = "Aborted")
    IN  /\ clientPc = "reading"
        /\ r.ready
        /\ IF Len(r.line) = 0
           THEN /\ clientPc' = "done"
                /\ UNCHANGED <<socket, pipe, observed>>
           ELSE /\ socket' = r.rest
                /\ pipe' = write_all(pipe, r.line)
                /\ observed' = Append(observed, r.line)
                /\ UNCHANGED clientPc
        /\ UNCHANGED <<tx_queue, rx_closed, writerPc, writerMsg, writerNotified,
                       chanState, expected, sends, producer, abortCalled, backlog,
                       sendErrs>>
        /\ UNCHANGED <<registryVars, lockHolder, watchVars, conv>>

(***************************************************************************)
(* Filesystem events.  Event paths are relative to the project root, one   *)
(* string per component.                                                   *)
(***************************************************************************)
PackageSwift ==
    <<"Package.swift">>

ProjectYml ==
    <<"project.yml">>

SourceFile ==
    <<"Sources", "a.swift">>

BuildObject ==
    <<".build", "x.o">>

Paths ==
    {PackageSwift, ProjectYml, SourceFile, BuildObject}

RawKinds ==
    {"create", "remove", "rename", "modify_content", "access"}

\* the raw events the notifier is made to deliver: kind and path list
RawInputs ==
    { <<"modify_content", <<PackageSwift>>>>,
      <<"rename", <<SourceFile, BuildObject>>>>,
      <<"remove", <<SourceFile>>>>,
      <<"create", <<BuildObject, SourceFile>>>>,
      <<"access", <<SourceFile>>>> }

NoRaw ==
    [id |-> 0, kind |-> "none", paths |-> <<>>]

NoProcessed ==
    [path |-> <<>>, at |-> -1]

NoEvent ==
    [path |-> <<>>, kind |-> "None", seen |-> FALSE, received_at |-> 0]

\* the debounce window, in ticks of the clock
DebounceWindow ==
    1

\* one wax glob against a path: "**" spans any number of components, "*"
\* one component, anything else is a literal component
RECURSIVE glob_match(_, _)
glob_match(pattern, path) ==
    IF pattern = <<>> THEN path = <<>>
    ELSE IF Head(pattern) = "**"
    THEN \/ glob_match(Tail(pattern), path)
         \/ path # <<>> /\ glob_match(pattern, Tail(path))
    ELSE /\ path # <<>>
         /\ Head(pattern) \in {"*", Head(path)}
         /\ glob_match(Tail(pattern), Tail(path))

\* an ignore matcher built from no pattern at all
ignore_none(patterns, path) ==
    FALSE

\* wax::any(ignore_pattern): matches when any of the patterns does
ignore_is_match(patterns, path) ==
    \E i \in 1..Len(patterns) : glob_match(patterns[i], path)

\* notifier kinds to event kinds
EventKind(kind) ==
    CASE kind = "create" -> "Create"
      [] kind = "remove" -> "Remove"
      [] kind = "rename" -> "Rename"
      [] kind = "modify_content" -> "ContentUpdate"
      [] OTHER -> "Other"

\* InternalState::last_run: time elapsed since the debounce stamp
last_run(t) ==
    t - debounce

\* update_debounce left out
update_debounce_skip(t) ==
    debounce

\* InternalState::update_debounce: the stamp is the current time
update_debounce(t) ==
    t

\* Event::new: the normalized event of a raw one, or NoEvent
Event_new(patterns, r, t) ==
    IF r.paths = <<>> THEN NoEvent
    ELSE IF ignore_is_match(patterns, r.paths[1]) THEN NoEvent
    ELSE IF EventKind(r.kind) = "Other" THEN NoEvent
    ELSE [path |-> r.paths[1], kind |-> EventKind(r.kind),
          seen |-> r.paths[1] = last_path /\ last_run(t) < DebounceWindow,
          received_at |-> t]

file_name(e) ==
    e.path[Len(e.path)]

(***************************************************************************)
(* The notifier callback and the bounded channel to the dispatcher.        *)
(***************************************************************************)
\* channel::<notify::Event>(1)
ChannelCapacity ==
    1

\* a send that gives up when the channel is full
try_send(c, ev) ==
    IF Len(c) < ChannelCapacity
    THEN [chan |-> Append(c, ev), blocked |-> NoRaw]
    ELSE [chan |-> c, blocked |-> NoRaw]

\* tx.blocking_send(event): the notifier thread waits for room
blocking_send(c, ev) ==
    IF Len(c) < ChannelCapacity
    THEN [chan |-> Append(c, ev), blocked |-> NoRaw]
    ELSE [chan |-> c, blocked |-> ev]

DispatcherRunning ==
    pc \notin {"done", "panicked", "failed"}

\* the watcher calls back with a result
NotifierCallback(res, kind, paths) ==
    /\ DispatcherRunning
    /\ blocked = NoRaw
    /\ Len(delivered) < MaxEvents
    /\ IF res = "Ok"
       THEN LET ev == [id |-> Len(delivered) + 1, kind |-> kind, paths |-> paths]
                r == blocking_send(chan, ev)
            IN  /\ delivered' = Append(delivered, ev.id)
                /\ chan' = r.chan
                /\ blocked' = r.blocked
       ELSE UNCHANGED <<delivered, chan, blocked>>
    /\ UNCHANGED <<now, received, pc, raw, event, order, visited, discards, debounce,
                   last_path, calls, emitted, regenerated, existed, insertion, retired, adds,
                   lastProcessed, prevProcessed, prevLastPath>>
    /\ UNCHANGED <<registryVars, lockHolder, broadcastVars, conv>>

\* room in the channel: the blocked send completes
NotifierResume ==
    /\ DispatcherRunning
    /\ blocked # NoRaw
    /\ Len(chan) < ChannelCapacity
    /\ chan' = Append(chan, blocked)
    /\ blocked' = NoRaw
    /\ UNCHANGED <<now, delivered, received, pc, raw, event, order, visited, discards,
                   debounce, last_path, calls, emitted, regenerated, existed, insertion,
                   retired, adds, lastProcessed, prevProcessed, prevLastPath>>
    /\ UNCHANGED <<registryVars, lockHolder, broadcastVars, conv>>

Tick ==
    /\ now < MaxTime
    /\ now' = now + 1
    /\ UNCHANGED <<delivered, received, chan, blocked, pc, raw, event, order, visited,
                   discards, debounce, last_path, calls, emitted, regenerated, existed,
                   insertion, retired, adds, lastProcessed, prevProcessed,
                   prevLastPath>>
    /\ UNCHANGED <<registryVars, lockHolder, broadcastVars, conv>>

(***************************************************************************)
(* The reactor set of the project: WatchService.listeners.                 *)
(***************************************************************************)
Keys ==
    {"Build", "Run"}

\* the root the modelled dispatcher serves (client.root)
root ==
    Root1

Listeners ==
    IF root \in DOMAIN watcher THEN watcher[root].listeners ELSE EmptyMap

\* s without the entries in the set ks
RECURSIVE SeqWithout(_, _)
SeqWithout(s, ks) ==
    IF s = <<>> THEN <<>>
    ELSE IF Head(s) \in ks THEN SeqWithout(Tail(s), ks)
    ELSE <<Head(s)>> \o SeqWithout(Tail(s), ks)

Range(s) ==
    {s[i] : i \in 1..Len(s)}

\* an insert that keeps the reactor the key already maps to
insert_if_absent(m, key, w) ==
    IF key \in DOMAIN m THEN m ELSE With(m, key, w)

\* HashMap::insert: the key maps to the new reactor, a prior one is returned
\* (and logged by add)
listeners_insert(m, key, w) ==
    With(m, key, w)

\* HashMap::remove: nothing happens when the key is absent
listeners_remove(m, key) ==
    Without(m, key)

\* WatchService::add, called by a request handler that holds the daemon lock
add(key) ==
    /\ lock_free(lockHolder)
    /\ root \in DOMAIN watcher
    /\ adds < MaxAdds
    /\ adds' = adds + 1
    /\ watcher' = [watcher EXCEPT ![root].listeners =
                       listeners_insert(@, key, adds + 1)]
    /\ insertion' = IF key \in DOMAIN Listeners THEN insertion
                    ELSE Append(insertion, key)
    /\ retired' = retired \ {key}
    /\ UNCHANGED <<projects, broadcasts, rpcResult, registers, unregisters, created,
                   aborts, stops, firstAddress>>
    /\ UNCHANGED <<now, delivered, received, chan, blocked, pc, raw, event, order,
                   visited, discards, debounce, last_path, calls, emitted,
                   regenerated, existed, lastProcessed, prevProcessed, prevLastPath>>
    /\ UNCHANGED <<lockHolder, broadcastVars, conv>>

\* WatchService::remove, called by a request handler that holds the daemon lock
remove(key) ==
    /\ lock_free(lockHolder)
    /\ root \in DOMAIN watcher
    /\ watcher' = [watcher EXCEPT ![root].listeners = listeners_remove(@, key)]
    /\ insertion' = SeqWithout(insertion, {key})
    /\ UNCHANGED <<projects, broadcasts, rpcResult, registers, unregisters, created,
                   aborts, stops, firstAddress>>
    /\ UNCHANGED <<now, delivered, received, chan, blocked, pc, raw, event, order,
                   visited, discards, debounce, last_path, calls, emitted,
                   regenerated, existed, retired, adds, lastProcessed, prevProcessed,
                   prevLastPath>>
    /\ UNCHANGED <<lockHolder, broadcastVars, conv>>

(***************************************************************************)
(* The dispatcher loop of the watch service.                               *)
(***************************************************************************)
\* a loop body that runs the pre-pass first and takes the lock after it
next_step_prepass_first(step) ==
    CASE step = "normalized" -> "recompile"
      [] step = "recompile" -> "lock"
      [] step = "lock" -> "lookup"

\* the order of the loop body: Event::new, DAEMON_STATE.lock(),
\* try_to_recompile, state.watcher.get(root)
next_step(step) ==
    CASE step = "normalized" -> "lock"
      [] step = "lock" -> "recompile"
      [] step = "recompile" -> "lookup"

\* a guard dropped at the end of its statement
guard_dropped(holder) ==
    "none"

\* `let ref mut state = state.lock().await`: the guard lives to the end of
\* the loop body
guard_scope(holder) ==
    holder

\* rx.recv() returned an event; Event::new normalizes it or filters it out
DispatcherRecv ==
    LET r == Head(chan)
        e == Event_new(WatchIgnore, r, now)
    IN  /\ pc = "recv"
        /\ chan # <<>>
        /\ chan' = Tail(chan)
        /\ raw' = r
        /\ received' = Append(received, r.id)
        /\ event' = e
        /\ prevLastPath' = last_path
        /\ last_path' = IF e = NoEvent THEN last_path ELSE e.path
        /\ pc' = IF e = NoEvent THEN "recv" ELSE next_step("normalized")
        /\ calls' = <<>>
        /\ emitted' = <<>>
        /\ regenerated' = FALSE
        /\ existed' = FALSE
        /\ visited' = <<>>
        /\ UNCHANGED <<now, delivered, blocked, order, discards, debounce, insertion,
                       retired, adds, lastProcessed, prevProcessed>>
        /\ UNCHANGED <<registryVars, lockHolder, broadcastVars, conv>>

\* DAEMON_STATE.lock().await
DispatcherLock ==
    /\ pc = "lock"
    /\ lockHolder = "none"
    /\ lockHolder' = "dispatcher"
    /\ pc' = next_step("lock")
    /\ UNCHANGED <<now, delivered, received, chan, blocked, raw, event, order,
                   visited, discards, debounce, last_path, calls, emitted,
                   regenerated, existed, insertion, retired, adds, lastProcessed,
                   prevProcessed, prevLastPath>>
    /\ UNCHANGED <<registryVars, broadcastVars, conv>>

\* the condition of try_to_recompile
recompile(e, exists) ==
    \/ e.kind = "Create"
    \/ e.kind = "Remove"
    \/ (e.kind = "ContentUpdate" /\ file_name(e) = "project.yml")
    \/ (e.kind = "Rename" /\ ~(exists \/ e.seen))

\* try_to_recompile, run with the daemon lock held
DispatcherRecompile(exists, ensured) ==
    /\ pc = "recompile"
    /\ pc' = next_step("recompile")
    /\ existed' = (event.kind = "Rename" /\ exists)
    /\ IF recompile(event, exists)
       THEN /\ regenerated' = TRUE
            /\ emitted' = emitted \o
                   <<"recompiling ..",
                     IF ensured THEN "recompiled" ELSE "Fail to recompile">>
       ELSE UNCHANGED <<regenerated, emitted>>
    /\ UNCHANGED <<now, delivered, received, chan, blocked, raw, event, order,
                   visited, discards, debounce, last_path, calls, insertion, retired,
                   adds, lastProcessed, prevProcessed, prevLastPath>>
    /\ UNCHANGED <<registryVars, lockHolder, broadcastVars, conv>>

\* the orders in which the keys ks can be arranged
Orders(ks) ==
    {s \in [1..Cardinality(ks) -> ks] : \A i, j \in 1..Cardinality(ks) :
                                            s[i] = s[j] => i = j}

\* an iteration that leaves the first key out
iter_skip(m) ==
    {IF s = <<>> THEN s ELSE Tail(s) : s \in Orders(DOMAIN m)}

\* HashMap::iter over the listeners: every key once, in an order the map picks
iter(m) ==
    Orders(DOMAIN m)

\* a failed lookup that goes on to the next event
on_lookup_continue(found) ==
    IF found THEN "iterate" ELSE "recv"

\* match state.watcher.get(root): Ok goes on to the listeners, Err breaks
\* out of the loop and the task returns Ok(())
on_lookup(found) ==
    IF found THEN "iterate" ELSE "done"

\* state.watcher.get(root): the loop ends when the project is gone
DispatcherLookup ==
    /\ pc = "lookup"
    /\ pc' = on_lookup(root \in DOMAIN watcher)
    /\ IF root \notin DOMAIN watcher
       THEN /\ lockHolder' = "none"
            /\ UNCHANGED order
       ELSE /\ order' \in iter(Listeners)
            /\ lockHolder' = guard_scope(lockHolder)
    /\ UNCHANGED <<now, delivered, received, chan, blocked, raw, event, visited,
                   discards, debounce, last_path, calls, emitted, regenerated, existed,
                   insertion, retired, adds, lastProcessed, prevProcessed,
                   prevLastPath>>
    /\ UNCHANGED <<registryVars, broadcastVars, conv>>

Call(key, op, result) ==
    [key |-> key, op |-> op, result |-> result]

\* a loop body with `if` in place of `else if`: should_trigger is evaluated
\* for a discarded listener too
listener_calls_no_else(key, shouldDiscard, shouldTrigger, ok) ==
    (IF shouldDiscard
     THEN <<Call(key, "should_discard", TRUE), Call(key, "discard", ok)>>
     ELSE <<Call(key, "should_discard", FALSE)>>)
    \o (IF shouldTrigger
        THEN <<Call(key, "should_trigger", TRUE), Call(key, "trigger", ok)>>
        ELSE <<Call(key, "should_trigger", FALSE)>>)

\* what the loop body invokes on one listener
listener_calls(key, shouldDiscard, shouldTrigger, ok) ==
    IF shouldDiscard
    THEN <<Call(key, "should_discard", TRUE), Call(key, "discard", ok)>>
    ELSE IF shouldTrigger
    THEN <<Call(key, "should_discard", FALSE), Call(key, "should_trigger", TRUE),
           Call(key, "trigger", ok)>>
    ELSE <<Call(key, "should_discard", FALSE), Call(key, "should_trigger", FALSE)>>

\* an error of discard or trigger handed on with `?`
on_result_try(ok, step) ==
    IF ok THEN step ELSE "failed"

\* `if let Err(err) = .. { error!(..) }`: the error is logged, the loop
\* goes on
on_result(ok, step) ==
    step

\* one round of the for loop over the listeners
DispatcherVisit(shouldDiscard, shouldTrigger, ok) ==
    /\ pc = "iterate"
    /\ order # <<>>
    /\ pc' = IF shouldDiscard \/ shouldTrigger THEN on_result(ok, pc) ELSE pc
    /\ LET key == Head(order)
       IN  /\ calls' = calls \o listener_calls(key, shouldDiscard, shouldTrigger, ok)
           /\ discards' = IF shouldDiscard THEN Append(discards, key) ELSE discards
           /\ visited' = Append(visited, key)
    /\ order' = Tail(order)
    /\ UNCHANGED <<now, delivered, received, chan, blocked, raw, event, debounce,
                   last_path, emitted, regenerated, existed, insertion, retired, adds,
                   lastProcessed, prevProcessed, prevLastPath>>
    /\ UNCHANGED <<registryVars, lockHolder, broadcastVars, conv>>

\* the queue of keys kept from one event to the next
discards_kept(ds) ==
    ds

\* discards.clear()
discards_clear(ds) ==
    <<>>

\* the removal loop forgets the queued keys
remove_none(m, ks) ==
    m

\* listeners.remove(key) for every queued key
remove_discards(m, ks) ==
    [k \in DOMAIN m \ Range(ks) |-> m[k]]

\* after the for loop: get_mut(root).unwrap(), removal of the queued keys,
\* discards.clear(), update_debounce(); the lock guard and the event go out
\* of scope
DispatcherFinish ==
    /\ pc = "iterate"
    /\ order = <<>>
    /\ IF root \notin DOMAIN watcher
       THEN /\ pc' = "panicked"
            /\ UNCHANGED <<watcher, insertion, retired, discards, debounce,
                           lastProcessed, prevProcessed, raw, event, visited,
                           calls, emitted, regenerated, existed>>
       ELSE /\ pc' = "recv"
            /\ raw' = NoRaw
            /\ event' = NoEvent
            /\ visited' = <<>>
            /\ calls' = <<>>
            /\ emitted' = <<>>
            /\ regenerated' = FALSE
            /\ existed' = FALSE
            /\ watcher' = [watcher EXCEPT
                               ![root].listeners = remove_discards(@, discards)]
            /\ insertion' = SeqWithout(insertion, Range(discards))
            /\ retired' = retired \cup Range(discards)
            /\ discards' = discards_clear(discards)
            /\ debounce' = update_debounce(now)
            /\ prevProcessed' = lastProcessed
            /\ lastProcessed' = [path |-> event.path, at |-> now]
    /\ lockHolder' = "none"
    /\ UNCHANGED <<projects, broadcasts, rpcResult, registers, unregisters, created,
                   aborts, stops, firstAddress>>
    /\ UNCHANGED <<now, delivered, received, chan, blocked, order, last_path, adds,
                   prevLastPath>>
    /\ UNCHANGED <<broadcastVars, conv>>

(***************************************************************************)
(* Conversions: process items to messages, platforms to and from strings.  *)
(* A string is a sequence of characters.                                   *)
(***************************************************************************)
UpperLetters ==
    <<"A", "B", "C", "D", "E", "F", "G", "H", "I", "J", "K", "L", "M", "N", "O",
      "P", "Q", "R", "S", "T", "U", "V", "W", "X", "Y", "Z">>

LowerLetters ==
    <<"a", "b", "c", "d", "e", "f", "g", "h", "i", "j", "k", "l", "m", "n", "o",
      "p", "q", "r", "s", "t", "u", "v", "w", "x", "y", "z">>

to_lowercase_char(c) ==
    IF \E i \in 1..Len(UpperLetters) : UpperLetters[i] = c
    THEN LowerLetters[CHOOSE i \in 1..Len(UpperLetters) : UpperLetters[i] = c]
    ELSE c

to_uppercase_char(c) ==
    IF \E i \in 1..Len(LowerLetters) : LowerLetters[i] = c
    THEN UpperLetters[CHOOSE i \in 1..Len(LowerLetters) : LowerLetters[i] = c]
    ELSE c

\* str::to_lowercase
to_lowercase(s) ==
    [i \in 1..Len(s) |-> to_lowercase_char(s[i])]

\* str::contains
contains(s, pat) ==
    \E i \in 1..(Len(s) - Len(pat) + 1) : SubSeq(s, i, i + Len(pat) - 1) = pat

\* every casing of the string s
RECURSIVE Casings(_)
Casings(s) ==
    IF s = <<>> THEN {<<>>}
    ELSE {<<c>> \o t : c \in {to_lowercase_char(Head(s)), to_uppercase_char(Head(s))},
                       t \in Casings(Tail(s))}

StrError ==
    <<"e", "r", "r", "o", "r">>

StrWarn ==
    <<"w", "a", "r", "n">>

StrExit ==
    <<"E", "x", "i", "t", " ">>

StrSuccess ==
    <<"S", "u", "c", "c", "e", "s", "s">>

\* the lines a child process is made to print
OutputLines ==
    {pre \o w \o post : pre \in {<<>>, <<"x", " ">>},
                        w \in Casings(StrError) \cup Casings(StrWarn),
                        post \in {<<>>, <<":">>}}
        \cup {<<>>, <<"o", "k">>, <<"e", "r", "o", "r">>, <<"w", "a", "r">>,
              <<"e", "r", "r", " ", "o", "r">>,
              StrWarn \o <<" ">> \o StrError, StrError \o <<" ">> \o StrWarn,
              <<"W", "A", "R", "N">> \o <<" ">> \o <<"E", "R", "R", "O", "R">>}

ExitCodes ==
    {<<"0">>, <<"1">>, <<"2">>}

\* ProcessItem::Output, ProcessItem::Error, ProcessItem::Exit
ProcessItems ==
    [t : {"Output", "Error"}, value : OutputLines]
        \cup [t : {"Exit"}, value : ExitCodes]

\* ProcessItem::is_success: Some(code == "0") for an exit, None otherwise
is_success(item) ==
    IF item.t = "Exit"
    THEN [some |-> TRUE, value |-> item.value = <<"0">>]
    ELSE [some |-> FALSE, value |-> FALSE]

\* a classifier that looks for "warn" first
Message_from_ProcessItem_warn_first(item) ==
    CASE item.t = "Output" ->
             IF contains(to_lowercase(item.value), StrWarn)
             THEN Log(item.value, "Warn")
             ELSE IF contains(to_lowercase(item.value), StrError)
             THEN Log(item.value, "Error")
             ELSE Log(item.value, "Info")
      [] item.t = "Error" -> Log(item.value, "Error")
      [] item.t = "Exit" ->
             IF is_success(item).value
             THEN Log(StrSuccess, "Info")
             ELSE Log(StrExit \o item.value, "Error")

\* impl From<ProcessItem> for Message
Message_from_ProcessItem(item) ==
    CASE item.t = "Output" ->
             IF contains(to_lowercase(item.value), StrError)
             THEN Log(item.value, "Error")
             ELSE IF contains(to_lowercase(item.value), StrWarn)
             THEN Log(item.value, "Warn")
             ELSE Log(item.value, "Info")
      [] item.t = "Error" -> Log(item.value, "Error")
      [] item.t = "Exit" ->
             IF is_success(item).value
             THEN Log(StrSuccess, "Info")
             ELSE Log(StrExit \o item.value, "Error")

Platforms ==
    {"IOS", "WatchOS", "TvOS", "MacOS", "Unknown"}

Str_iOS ==
    <<"i", "O", "S">>

Str_watchOS ==
    <<"w", "a", "t", "c", "h", "O", "S">>

Str_tvOS ==
    <<"t", "v", "O", "S">>

Str_macOS ==
    <<"m", "a", "c", "O", "S">>

\* impl FromStr for Platform: always Ok
Platform_from_str(s) ==
    CASE s = Str_iOS -> "IOS"
      [] s = Str_watchOS -> "WatchOS"
      [] s = Str_tvOS -> "TvOS"
      [] s = Str_macOS -> "MacOS"
      [] OTHER -> "Unknown"

\* a to_string that writes the names in lower case
Platform_to_string_lower(p) ==
    CASE p = "IOS" -> <<"i", "o", "s">>
      [] p = "WatchOS" -> <<"w", "a", "t", "c", "h", "o", "s">>
      [] p = "TvOS" -> <<"t", "v", "o", "s">>
      [] p = "MacOS" -> <<"m", "a", "c", "o", "s">>
      [] OTHER -> <<>>

\* impl ToString for Platform
Platform_to_string(p) ==
    CASE p = "IOS" -> Str_iOS
      [] p = "WatchOS" -> Str_watchOS
      [] p = "TvOS" -> Str_tvOS
      [] p = "MacOS" -> Str_macOS
      [] OTHER -> <<>>

Sdk_iphoneos ==
    <<"i", "p", "h", "o", "n", "e", "o", "s">>

Sdk_macosx ==
    <<"m", "a", "c", "o", "s", "x">>

Sdk_appletvos ==
    <<"a", "p", "p", "l", "e", "t", "v", "o", "s">>

Sdk_watchos ==
    <<"w", "a", "t", "c", "h", "o", "s">>

\* Platform::from_sdk_root: the match arms compare the string as it is
from_sdk_root(sdk_root) ==
    CASE sdk_root = Sdk_iphoneos -> "IOS"
      [] sdk_root = Sdk_macosx -> "MacOS"
      [] sdk_root = Sdk_appletvos -> "TvOS"
      [] sdk_root = Sdk_watchos -> "WatchOS"
      [] OTHER -> "Unknown"

\* the SDK names handed to from_sdk_root
SdkRoots ==
    Casings(Sdk_iphoneos) \cup Casings(Sdk_macosx) \cup Casings(Sdk_watchos)
        \cup {Sdk_appletvos, to_lowercase(Str_macOS), <<>>,
              [i \in 1..Len(Sdk_appletvos) |-> to_uppercase_char(Sdk_appletvos[i])],
              <<"A">> \o Tail(Sdk_appletvos), Sdk_iphoneos \o <<"1">>}

NoConv ==
    [op |-> "none", arg |-> <<>>, out |-> <<>>]

\* the task runner turns one process item into a message
ConvertProcessItem(item) ==
    /\ conv' = [op |-> "from_process_item", arg |-> item,
                out |-> Message_from_ProcessItem(item)]
    /\ UNCHANGED <<registryVars, lockHolder, broadcastVars, watchVars>>

\* a producer helper builds its messages
ConvertHelper(h, state) ==
    /\ conv' = [op |-> "helper", arg |-> h, out |-> helper_messages(h, Text, state)]
    /\ UNCHANGED <<registryVars, lockHolder, broadcastVars, watchVars>>

\* a platform is written and parsed back
ConvertPlatform(p) ==
    /\ conv' = [op |-> "platform", arg |-> p,
                out |-> [str |-> Platform_to_string(p),
                         back |-> Platform_from_str(Platform_to_string(p))]]
    /\ UNCHANGED <<registryVars, lockHolder, broadcastVars, watchVars>>

\* a string is parsed as a platform
ConvertString(s) ==
    /\ conv' = [op |-> "from_str", arg |-> s, out |-> Platform_from_str(s)]
    /\ UNCHANGED <<registryVars, lockHolder, broadcastVars, watchVars>>

\* an SDK name is mapped to a platform
ConvertSdkRoot(s) ==
    /\ conv' = [op |-> "from_sdk_root", arg |-> s, out |-> from_sdk_root(s)]
    /\ UNCHANGED <<registryVars, lockHolder, broadcastVars, watchVars>>

(***************************************************************************)
(* Specifications.                                                         *)
(***************************************************************************)
InitRegistryVars ==
    /\ projects = EmptyMap
    /\ broadcasts = EmptyMap
    /\ watcher = EmptyMap
    /\ rpcResult = [op |-> "none", root |-> <<>>, ok |-> TRUE, address |-> NoAddress,
                    built |-> NoBuilt]
    /\ registers = [r \in Roots |-> 0]
    /\ unregisters = [r \in Roots |-> 0]
    /\ created = [r \in Roots |-> 0]
    /\ aborts = [r \in Roots |-> 0]
    /\ stops = [r \in Roots |-> 0]
    /\ firstAddress = [r \in Roots |-> NoAddress]

InitBroadcastVars ==
    /\ tx_queue = <<>>
    /\ rx_closed = FALSE
    /\ writerPc = "start"
    /\ writerMsg = NoMessage
    /\ writerNotified = FALSE
    /\ chanState = "Idle"
    /\ socket = <<>>
    /\ clientPc = "idle"
    /\ pipe = <<>>
    /\ observed = <<>>
    /\ expected = <<>>
    /\ sends = 0
    /\ producer = "idle"
    /\ abortCalled = FALSE
    /\ backlog = 0
    /\ sendErrs = 0

InitWatchVars ==
    /\ now = 0
    /\ delivered = <<>>
    /\ received = <<>>
    /\ chan = <<>>
    /\ blocked = NoRaw
    /\ pc = "recv"
    /\ raw = NoRaw
    /\ event = NoEvent
    /\ order = <<>>
    /\ visited = <<>>
    /\ discards = <<>>
    /\ debounce = 0
    /\ last_path = <<>>
    /\ calls = <<>>
    /\ emitted = <<>>
    /\ regenerated = FALSE
    /\ existed = FALSE
    /\ insertion = <<>>
    /\ retired = {}
    /\ adds = 0
    /\ lastProcessed = NoProcessed
    /\ prevProcessed = NoProcessed
    /\ prevLastPath = <<>>

\* the daemon has started: nothing is registered
Init ==
    /\ InitRegistryVars
    /\ lockHolder = "none"
    /\ InitBroadcastVars
    /\ InitWatchVars
    /\ conv = NoConv

NextRegistry ==
    \/ \E r \in Roots : register(r)
    \/ \E r \in Roots : unregister(r)

SpecRegistry ==
    Init /\ [][NextRegistry]_vars

NextBroadcast ==
    \/ \E h \in Helpers \ {"update_statusline"} : Produce(h, "none")
    \/ \E st \in StatuslineStates : Produce("update_statusline", st)
    \/ abort
    \/ WriterStart
    \/ WriterAborted
    \/ WriterRecv
    \/ WriterWrite
    \/ PeerConnect
    \/ PeerDrop
    \/ ClientRead

SpecBroadcast ==
    Init /\ [][NextBroadcast]_vars

WriterStep ==
    WriterStart \/ WriterAborted \/ WriterRecv \/ WriterWrite

\* the executor keeps polling the writer task and the relay thread
FairSpecBroadcast ==
    SpecBroadcast /\ WF_vars(WriterStep) /\ WF_vars(ClientRead)

\* the project root is registered by one client: its session, channel and
\* watch service exist and the dispatcher waits for its first event
InitWatch ==
    /\ projects = With(EmptyMap, root,
                       SwiftProject_new(root, TRUE, TRUE,
                           [success |-> TRUE, parses |-> TRUE, hasName |-> TRUE,
                            hasTargets |-> TRUE, targets |-> <<>>]).project)
    /\ broadcasts = With(EmptyMap, root, [address |-> Broadcast_address(root)])
    /\ watcher = With(EmptyMap, root, [listeners |-> EmptyMap])
    /\ rpcResult = [op |-> "register", root |-> root, ok |-> TRUE,
                    address |-> Broadcast_address(root),
                    built |-> NoBuilt]
    /\ registers = [r \in Roots |-> IF r = root THEN 1 ELSE 0]
    /\ unregisters = [r \in Roots |-> 0]
    /\ created = [r \in Roots |-> IF r = root THEN 1 ELSE 0]
    /\ aborts = [r \in Roots |-> 0]
    /\ stops = [r \in Roots |-> 0]
    /\ firstAddress = [r \in Roots |-> IF r = root THEN Broadcast_address(root)
                                      ELSE NoAddress]
    /\ lockHolder = "none"
    /\ InitBroadcastVars
    /\ InitWatchVars
    /\ conv = NoConv

NextWatch ==
    \/ \E res \in {"Ok", "Err"}, in \in RawInputs :
           NotifierCallback(res, in[1], in[2])
    \/ NotifierResume
    \/ Tick
    \/ DispatcherRecv
    \/ DispatcherLock
    \/ \E exists \in BOOLEAN, ensured \in BOOLEAN : DispatcherRecompile(exists, ensured)
    \/ DispatcherLookup
    \/ \E sd \in BOOLEAN, st \in BOOLEAN, ok \in BOOLEAN : DispatcherVisit(sd, st, ok)
    \/ DispatcherFinish
    \/ \E k \in Keys : add(k)
    \/ \E k \in Keys : remove(k)
    \/ unregister(root)

SpecWatch ==
    InitWatch /\ [][NextWatch]_vars

NextConvert ==
    \/ \E item \in ProcessItems : ConvertProcessItem(item)
    \/ \E h \in Helpers : ConvertHelper(h, "Success")
    \/ \E p \in Platforms : ConvertPlatform(p)
    \/ \E s \in {Platform_to_string(p) : p \in Platforms} \cup Casings(Str_iOS) :
           ConvertString(s)
    \/ \E s \in SdkRoots : ConvertSdkRoot(s)

SpecConvert ==
    Init /\ [][NextConvert]_vars

(***************************************************************************)
(* Properties.                                                             *)
(***************************************************************************)
Live(r) ==
    IF r \in DOMAIN projects THEN 1 ELSE 0

\* C1: while a root's session exists its num_clients equals the number of
\* registers minus the number of unregisters of the root and is at least 1
\* (1 after the first register); with no session the two counts are equal,
\* so the count is never negative.
C1_NumClients ==
    \A r \in Roots :
        /\ r \in DOMAIN projects =>
               /\ projects[r].num_clients = registers[r] - unregisters[r]
               /\ projects[r].num_clients >= 1
        /\ r \notin DOMAIN projects => registers[r] - unregisters[r] = 0

C1_Witness ==
    /\ Root1 \in DOMAIN projects
    /\ projects[Root1].num_clients = 2
    /\ unregisters[Root1] = 1

\* C2: a register of a registered root returns the address the first
\* register returned and builds nothing new (one session, channel and watch
\* service per live root); the session is present exactly while registers
\* exceed unregisters, and the unregister that brings them level aborts the
\* broadcast, stops the watch service and removes the entry.
C2_RefCount ==
    \A r \in Roots :
        /\ created[r] = aborts[r] + Live(r)
        /\ aborts[r] = stops[r]
        /\ (r \in DOMAIN projects) <=> (registers[r] > unregisters[r])
        /\ (r \in DOMAIN broadcasts) <=> (r \in DOMAIN projects)
        /\ (r \in DOMAIN watcher) <=> (r \in DOMAIN projects)
        /\ (rpcResult.op = "register" /\ rpcResult.ok /\ rpcResult.root = r) =>
               /\ r \in DOMAIN projects
               /\ rpcResult.address = firstAddress[r]
               /\ rpcResult.address = broadcasts[r].address

C2_Witness ==
    /\ registers[Root1] = 2
    /\ unregisters[Root1] = 2
    /\ Root1 \notin DOMAIN projects
    /\ aborts[Root1] = 1
    /\ stops[Root1] = 1
    /\ created[Root1] = 1

IsPrefix(a, b) ==
    /\ Len(a) <= Len(b)
    /\ SubSeq(b, 1, Len(a)) = a

IsLine(l) ==
    /\ Len(l) = 2
    /\ l[1].t = "json"
    /\ l[2] = Newline

\* what is on its way to the connected peer: read, in the socket, in the
\* writer's hand, queued
Pipeline ==
    Concat(observed) \o socket \o Lines(InHand \o tx_queue)

C3_Conservation ==
    /\ chanState = "Connected" => Pipeline = expected
    /\ chanState = "Aborted" => IsPrefix(Concat(observed) \o socket, expected)
    /\ \A i \in 1..Len(observed) : IsLine(observed[i])
    /\ pipe = Concat(observed)

\* the bytes a run can owe a peer
ByteCounts ==
    1..(2 * (MaxSends + 1))

C4_ProducerNeverFails ==
    /\ producer # "panicked"
    /\ rx_closed => tx_queue = <<>>
    /\ \A h \in Helpers :
           sends + Len(helper_messages(h, Text, "Success")) <= MaxSends
               => ENABLED Produce(h, "Success")

C4_Witness ==
    /\ producer = "returned"
    /\ sendErrs > 0
    /\ chanState = "Aborted"

\* Aborted is terminal and nothing is written to the socket after it
C5_AbortedTerminal ==
    [][chanState = "Aborted" =>
           /\ chanState' = "Aborted"
           /\ Len(socket') <= Len(socket)]_vars

IgnoredRaw(r) ==
    /\ r.paths # <<>>
    /\ ".build" \in Range(r.paths[1])

\* C6: for a raw event whose path matches the watchignore pattern the
\* dispatcher invokes no reactor operation, runs no regeneration and echoes
\* nothing: it goes back to waiting for the next event.
C6_IgnoredPathInert ==
    IgnoredRaw(raw) =>
        /\ calls = <<>>
        /\ emitted = <<>>
        /\ ~regenerated
        /\ event = NoEvent
        /\ pc = "recv"

C6_Witness ==
    /\ IgnoredRaw(raw)
    /\ raw.kind = "create"
    /\ DOMAIN Listeners # {}
    /\ Len(received) >= 2

Within(e, h) ==
    /\ h.path = e.path
    /\ e.received_at - h.at < DebounceWindow

\* C7 as stated: an event on the path of any earlier event, arriving within
\* the window after that one was processed, is seen.
C7_SeenAnyTwo ==
    event # NoEvent =>
        \A h \in {lastProcessed, prevProcessed} : Within(event, h) => event.seen

\* C7: an event on the path of the event dispatched last, arriving within
\* the window after that dispatch finished, is seen; and seen holds exactly
\* when the path is the last_path the event found and the time since the
\* debounce stamp is below the window.
C7_SeenConsecutive ==
    event # NoEvent =>
        /\ Within(event, lastProcessed) => event.seen
        /\ event.seen <=> (/\ event.path = prevLastPath
                           /\ event.received_at - debounce < DebounceWindow)

C7_Witness ==
    /\ event # NoEvent
    /\ event.seen
    /\ Within(event, lastProcessed)

\* C8: a reactor whose should_discard answered true has discard run next and
\* its key queued; between events nothing is queued and no discarded key is
\* in the set; no operation is invoked on a discarded key that was not added
\* again.
C8_DiscardRemoves ==
    /\ retired \cap DOMAIN Listeners = {}
    /\ pc # "iterate" => discards = <<>>
    /\ \A i \in 1..Len(calls) :
           /\ calls[i].key \notin retired
           /\ (calls[i].op = "should_discard" /\ calls[i].result) =>
                  /\ i < Len(calls)
                  /\ calls[i + 1].op = "discard"
                  /\ calls[i + 1].key = calls[i].key
                  /\ calls[i].key \in Range(discards)

C8_Witness ==
    /\ retired # {}
    /\ pc = "iterate"
    /\ calls # <<>>
    /\ order = <<>>

PendingIds ==
    [i \in 1..Len(chan) |-> chan[i].id]
        \o (IF blocked = NoRaw THEN <<>> ELSE <<blocked.id>>)

\* C10: while the dispatcher runs, the events it has received followed by
\* those waiting in the channel and in the blocked send are exactly the
\* events the notifier delivered, in delivery order, each once.
C10_FifoNoLoss ==
    DispatcherRunning =>
        /\ received \o PendingIds = delivered
        /\ delivered = [i \in 1..Len(delivered) |-> i]
        /\ Len(chan) <= ChannelCapacity

C10_Witness ==
    /\ blocked # NoRaw
    /\ chan # <<>>
    /\ pc = "iterate"
    /\ Len(received) = 1

\* the string s holds the word w in some casing
HasWord(s, w) ==
    \E i \in 1..Len(s), v \in Casings(w) :
        /\ i + Len(w) - 1 <= Len(s)
        /\ SubSeq(s, i, i + Len(w) - 1) = v

\* C17: a stdout line holding "error" in any casing becomes a Log of level
\* Error, otherwise one holding "warn" in any casing a Log of level Warn,
\* otherwise Info; a stderr line is always Error; exit code 0 becomes
\* Log{"Success", Info} and any other code c Log{"Exit c", Error}; the text
\* of an output line is kept as it is.
C17_Classification ==
    conv.op = "from_process_item" =>
        LET item == conv.arg
            m == conv.out
        IN  /\ m.kind = "Log"
            /\ item.t = "Output" =>
                   /\ m.msg = item.value
                   /\ m.level = IF HasWord(item.value, <<"e", "r", "r", "o", "r">>)
                                THEN "Error"
                                ELSE IF HasWord(item.value, <<"w", "a", "r", "n">>)
                                THEN "Warn"
                                ELSE "Info"
            /\ item.t = "Error" =>
                   /\ m.msg = item.value
                   /\ m.level = "Error"
            /\ item.t = "Exit" =>
                   IF item.value = <<"0">>
                   THEN /\ m.msg = <<"S", "u", "c", "c", "e", "s", "s">>
                        /\ m.level = "Info"
                   ELSE /\ m.msg = <<"E", "x", "i", "t", " ">> \o item.value
                        /\ m.level = "Error"

C17_Witness ==
    /\ conv.op = "from_process_item"
    /\ conv.arg.t = "Output"
    /\ HasWord(conv.arg.value, <<"w", "a", "r", "n">>)
    /\ HasWord(conv.arg.value, <<"e", "r", "r", "o", "r">>)
    /\ conv.arg.value # to_lowercase(conv.arg.value)
    /\ conv.out = Log(conv.arg.value, "Error")

\* the level a helper's name states
NamedLevel(h) ==
    CASE h \in {"error", "log_error"} -> "Error"
      [] h \in {"warn", "log_warn"} -> "Warn"
      [] h \in {"trace", "log_trace"} -> "Trace"
      [] h \in {"debug", "log_debug"} -> "Debug"
      [] OTHER -> "Info"

\* C18: log_info emits Log with level Info, log_step a header line and a
\* rule of 73 dots and log_separator the rule, all Log with level Info; the
\* error, warn, trace and debug helpers emit Notify, and their log_ forms
\* Log, with the level of their name; info emits Notify with level Info.
C18_HelperLevels ==
    conv.op = "helper" =>
        LET h == conv.arg
            ms == conv.out
            rule == [i \in 1..73 |-> "."]
        IN  /\ h = "log_step" =>
                   ms = <<[kind |-> "Log", msg |-> Text, level |-> "Info"],
                          [kind |-> "Log", msg |-> rule, level |-> "Info"]>>
            /\ h = "log_separator" =>
                   ms = <<[kind |-> "Log", msg |-> rule, level |-> "Info"]>>
            /\ h \in {"log_info", "log_error", "log_warn", "log_trace", "log_debug"} =>
                   ms = <<[kind |-> "Log", msg |-> Text, level |-> NamedLevel(h)]>>
            /\ h \in {"info", "error", "warn", "trace", "debug"} =>
                   ms = <<[kind |-> "Notify", msg |-> Text, level |-> NamedLevel(h)]>>

\* C19: a platform other than Unknown written as a string and parsed back is
\* the same platform, and the strings of the four platforms are "iOS",
\* "watchOS", "tvOS" and "macOS", no two the same.
C19_RoundTrip ==
    /\ conv.op = "platform" /\ conv.arg # "Unknown" =>
           /\ conv.out.back = conv.arg
           /\ conv.out.str = CASE conv.arg = "IOS" -> <<"i", "O", "S">>
                               [] conv.arg = "WatchOS" -> <<"w", "a", "t", "c", "h", "O", "S">>
                               [] conv.arg = "TvOS" -> <<"t", "v", "O", "S">>
                               [] conv.arg = "MacOS" -> <<"m", "a", "c", "O", "S">>
    /\ \A p, q \in Platforms \ {"Unknown"} :
           p # q => Platform_to_string(p) # Platform_to_string(q)

C19_Witness ==
    /\ conv.op = "platform"
    /\ conv.arg = "WatchOS"
    /\ conv.out.str = <<"w", "a", "t", "c", "h", "O", "S">>
    /\ conv.out.back = "WatchOS"

\* C20: an SDK name that is iphoneos, macosx, appletvos or watchos in any
\* casing maps to iOS, macOS, tvOS or watchOS, and any other string to
\* Unknown.
C20_CaseInsensitive ==
    conv.op = "from_sdk_root" =>
        conv.out = CASE to_lowercase(conv.arg) = <<"i", "p", "h", "o", "n", "e", "o", "s">>
                            -> "IOS"
                     [] to_lowercase(conv.arg) = <<"m", "a", "c", "o", "s", "x">>
                            -> "MacOS"
                     [] to_lowercase(conv.arg) = <<"a", "p", "p", "l", "e", "t", "v", "o", "s">>
                            -> "TvOS"
                     [] to_lowercase(conv.arg) = <<"w", "a", "t", "c", "h", "o", "s">>
                            -> "WatchOS"
                     [] OTHER -> "Unknown"

Stopped ==
    {"done", "panicked", "failed"}

C11_StoppedOnlyGone ==
    /\ pc \notin {"panicked", "failed"}
    /\ pc = "done" =>
           /\ root \notin DOMAIN watcher
           /\ lockHolder = "none"

\* the dispatcher's task ends in this step
C11_Ends ==
    /\ pc \notin Stopped
    /\ pc' \in Stopped

Errored(i) ==
    /\ calls[i].op \in {"discard", "trigger"}
    /\ ~calls[i].result

HasError ==
    \E i \in 1..Len(calls) : Errored(i)

C12_ErrorsDropped ==
    /\ pc # "failed"
    /\ HasError =>
           /\ pc = "iterate"
           /\ Range(visited) \cup Range(order) = DOMAIN Listeners
           /\ \A i \in 1..Len(calls) :
                  calls[i].op = "discard" => calls[i].key \in Range(discards)

\* C12: an error returned by trigger or discard does not stop the dispatcher:
\* the remaining reactors of the set are still visited for the event, the
\* reactor whose discard failed is still removed, and the dispatcher goes
\* back to waiting for the next event.
C12_ReactorErrorsLogged ==
    /\ []C12_ErrorsDropped
    /\ [][(HasError /\ pc' # pc) =>
              /\ order = <<>>
              /\ pc' = "recv"
              /\ root \in DOMAIN watcher'
              /\ Range(discards) \cap DOMAIN watcher'[root].listeners = {}]_vars

C12_Witness ==
    /\ pc = "iterate"
    /\ order = <<>>
    /\ \E i \in 1..Len(calls) :
           /\ Errored(i)
           /\ calls[i].op = "discard"
           /\ calls[Len(calls)].key # calls[i].key
           /\ calls[Len(calls)].op = "trigger"
           /\ ~calls[Len(calls)].result

\* the regeneration condition as the specification states it, for a Swift
\* package
StatedRegeneration(e, pathExists) ==
    \/ e.kind = "Create"
    \/ e.kind = "Remove"
    \/ (e.kind = "ContentUpdate" /\ e.path[Len(e.path)] = "Package.swift")
    \/ (e.kind = "Rename" /\ ~pathExists /\ ~e.seen)

\* C13: for a dispatched event the regeneration hook has run if and only if
\* the event is a Create, a Remove, a ContentUpdate of the package's
\* Package.swift, or a Rename whose path does not exist and was not seen.
C13_RegenerationIff ==
    pc \in {"lookup", "iterate"} =>
        (regenerated <=> StatedRegeneration(event, existed))

\* C14: when a content update of Package.swift is dispatched, the editor has
\* been sent "recompiling .." and after it exactly one of "recompiled" and
\* the failure message, before the reactors are evaluated.
C14_RecompileEchoes ==
    (pc = "iterate" /\ event.kind = "ContentUpdate" /\ event.path = <<"Package.swift">>)
        => emitted \in {<<"recompiling ..", "recompiled">>,
                        <<"recompiling ..", "Fail to recompile">>}

Held ==
    {"recompile", "lookup", "iterate"}

C15_LockMatchesStep ==
    (lockHolder = "dispatcher") <=> (pc \in Held)

\* C15: for every dispatched event the dispatcher takes the daemon lock
\* once, holds it from then on through every reactor call and the removal
\* of the discarded keys, and gives it back before it waits for the next
\* event; while it holds the lock no register, unregister, add or remove
\* changes the registry.
C15_LockHeldAcrossEvent ==
    /\ []C15_LockMatchesStep
    /\ [][(lockHolder # "dispatcher" /\ lockHolder' = "dispatcher")
              => (pc = "lock" /\ event # NoEvent /\ calls = <<>>)]_vars
    /\ [][(lockHolder = "dispatcher" /\ lockHolder' # "dispatcher")
              => (pc' \in {"recv", "done"} /\ discards' = <<>>)]_vars
    /\ [][(lockHolder = "dispatcher" /\ lockHolder' = "dispatcher")
              => (/\ projects' = projects
                  /\ broadcasts' = broadcasts
                  /\ watcher' = watcher
                  /\ registers' = registers
                  /\ unregisters' = unregisters)]_vars

C15_Witness ==
    /\ lockHolder = "dispatcher"
    /\ pc = "iterate"
    /\ order = <<>>
    /\ discards # <<>>
    /\ Len(visited) = 2

\* C16 as stated: the pre-pass runs before the lock is taken, the lock is
\* not held while the regeneration hook runs.
C16_PrepassBeforeLock ==
    pc = "recompile" => lockHolder = "none"

\* C16: for every dispatched event the dispatcher takes the daemon lock
\* first and runs the regeneration pre-pass with the lock held; the lookup
\* of the reactor set follows the pre-pass.
C16_PrepassUnderLock ==
    /\ [](pc = "recompile" => lockHolder = "dispatcher")
    /\ [][(regenerated' /\ ~regenerated)
              => (/\ lockHolder = "dispatcher"
                  /\ lockHolder' = "dispatcher"
                  /\ pc' = "lookup")]_vars

C16_Witness ==
    /\ regenerated
    /\ lockHolder = "dispatcher"
    /\ pc = "lookup"
    /\ emitted = <<"recompiling ..", "Fail to recompile">>

\* the step is a call of add: the only step that counts an add
C21_IsAdd ==
    adds' = adds + 1

C21_KeysUnique ==
    /\ root \in DOMAIN watcher =>
           /\ Range(insertion) = DOMAIN Listeners
           /\ Len(insertion) = Cardinality(DOMAIN Listeners)
    /\ \A k \in Keys \ DOMAIN Listeners :
           listeners_remove(Listeners, k) = Listeners

\* C21: the reactor set holds every key once; add of a key that is present
\* replaces its reactor and leaves the size of the set unchanged, add of a
\* new key grows the set by one, and remove of an absent key leaves the set
\* unchanged.
C21_AddReplacesRemoveIdempotent ==
    /\ []C21_KeysUnique
    /\ [][C21_IsAdd =>
              \E k \in Keys :
                  /\ k \in DOMAIN Listeners'
                  /\ Listeners'[k] = adds'
                  /\ \A j \in DOMAIN Listeners \ {k} :
                         j \in DOMAIN Listeners' /\ Listeners'[j] = Listeners[j]
                  /\ k \in DOMAIN Listeners =>
                         DOMAIN Listeners' = DOMAIN Listeners
                  /\ k \notin DOMAIN Listeners =>
                         Cardinality(DOMAIN Listeners') =
                             Cardinality(DOMAIN Listeners) + 1]_vars
    /\ [][(pc' = pc /\ lockHolder' = lockHolder /\ adds' = adds
               /\ root \in DOMAIN watcher /\ root \in DOMAIN watcher')
              => \/ Listeners' = Listeners
                 \/ \E k \in DOMAIN Listeners :
                        Listeners' = [j \in DOMAIN Listeners \ {k} |-> Listeners[j]]]_vars

\* a key was added twice: it maps to the second reactor, the set has one key
C21_Witness ==
    /\ adds = 2
    /\ DOMAIN Listeners = {"Build"}
    /\ Listeners["Build"] = 2

\* the operations invoked on the reactor k for the current event
OpsOn(k) ==
    {calls[i].op : i \in {j \in 1..Len(calls) : calls[j].key = k}}

\* C24: for every reactor and the event being dispatched, should_discard is
\* the first call; discard only follows a should_discard that returned true,
\* should_trigger only one that returned false, trigger only a should_trigger
\* that returned true; a reactor never gets both discard and trigger, and
\* neither should_trigger nor trigger after a should_discard that was true.
C24_DiscardXorTrigger ==
    /\ \A i \in 1..Len(calls) :
           LET c == calls[i]
           IN  /\ c.op = "should_discard" =>
                      \A j \in 1..(i - 1) : calls[j].key # c.key
               /\ c.op = "discard" =>
                      i > 1 /\ calls[i - 1] = Call(c.key, "should_discard", TRUE)
               /\ c.op = "should_trigger" =>
                      i > 1 /\ calls[i - 1] = Call(c.key, "should_discard", FALSE)
               /\ c.op = "trigger" =>
                      i > 1 /\ calls[i - 1] = Call(c.key, "should_trigger", TRUE)
    /\ \A k \in Keys :
           /\ ~({"discard", "trigger"} \subseteq OpsOn(k))
           /\ "discard" \in OpsOn(k) => OpsOn(k) = {"should_discard", "discard"}
           /\ k \in Range(visited) <=> "should_discard" \in OpsOn(k)

\* one event for which one reactor was discarded and the other triggered
C24_Witness ==
    /\ pc = "iterate"
    /\ order = <<>>
    /\ \E k1, k2 \in Keys :
           /\ k1 # k2
           /\ OpsOn(k1) = {"should_discard", "discard"}
           /\ OpsOn(k2) = {"should_discard", "should_trigger", "trigger"}

\* C25: the lookup after the reactor calls, get_mut(root).unwrap(), never
\* fails: from the first lookup to the removal of the discarded keys the
\* project's watch service stays in the registry, whatever unregister calls
\* other tasks make.
C25_SecondLookupSucceeds ==
    /\ [](pc # "panicked")
    /\ [](pc = "iterate" => root \in DOMAIN watcher)
    /\ [][(pc = "iterate" /\ pc' # "iterate")
              => (root \in DOMAIN watcher /\ root \in DOMAIN watcher'
                  /\ pc' = "recv")]_vars

\* the reactor calls of an event are over, keys wait for removal, and one
\* unregister would take the project down: it waits for the lock
C25_Witness ==
    /\ pc = "iterate"
    /\ order = <<>>
    /\ discards # <<>>
    /\ lockHolder = "dispatcher"
    /\ projects[root].num_clients = 1

\* the dispatcher finishes the dispatch of an event in this step
C26_Dispatched ==
    pc = "iterate" /\ pc' = "recv"

\* the dispatcher takes an event that is filtered out in this step
C26_Filtered ==
    pc = "recv" /\ received' # received /\ pc' = "recv"

\* C26: the debounce stamp is set, to the current time, by the step that
\* ends the dispatch of an event, together with the removal of the discarded
\* reactors, and by no other step: not by a filtered event and not by the
\* event on which the loop ends; no key is queued for removal when an event
\* starts.
C26_DebounceOncePerDispatch ==
    /\ [][C26_Dispatched =>
              /\ debounce' = now
              /\ order = <<>>
              /\ Range(discards) \cap DOMAIN Listeners' = {}
              /\ discards' = <<>>]_vars
    /\ [][~C26_Dispatched => debounce' = debounce]_vars
    /\ [][C26_Filtered => (event' = NoEvent /\ debounce' = debounce)]_vars
    /\ [][pc' = "done" => debounce' = debounce]_vars
    /\ [](pc \in {"recv", "lock", "recompile", "lookup", "done"} => discards = <<>>)
    /\ []((pc = "iterate" /\ visited = <<>>) => discards = <<>>)

\* an event was dispatched at time 1 and a reactor removed: the stamp is 1
\* and the queue is empty again
C26_Witness ==
    /\ pc = "recv"
    /\ debounce = 1
    /\ lastProcessed.at = 1
    /\ retired # {}
    /\ discards = <<>>
    /\ Len(received) >= 2

\* C23: two distinct roots that are registered at the same time have
\* distinct broadcast addresses, and unique_name gives distinct names to
\* distinct roots.
C23_AddressUnique ==
    \A r1, r2 \in DOMAIN broadcasts :
        r1 # r2 =>
            /\ broadcasts[r1].address # broadcasts[r2].address
            /\ unique_name(r1) # unique_name(r2)

\* the names of the targets of a dump that are not tests
DumpedTargets(dump) ==
    {dump.targets[i].name :
         i \in {j \in 1..Len(dump.targets) : dump.targets[j].type # "test"}}

====
